---- MODULE Spec2Model ----
(***************************************************************************)
(* licensecheck: cli() and getdepsLicenses() of licensecheck/__init__.py.  *)
(*                                                                         *)
(* One behaviour is one invocation of cli().  The collaborators that are   *)
(* outside __init__.py (packageinfo, license_matrix, formatter) and the    *)
(* operating system (poetry, the file system) are modelled by their        *)
(* results, drawn from small sets at the step that calls them.             *)
(*                                                                         *)
(* Python values whose shape matters are tagged: a list is                 *)
(* [tag |-> "list", items |-> <<...>>], a license category is              *)
(* [tag |-> "category", name |-> c].  A license string is the sequence of  *)
(* its whitespace-separated words.                                         *)
(***************************************************************************)
EXTENDS Integers, Sequences, FiniteSets, TLC

\* Most lines of `poetry show` / requirements.txt, and so most dependencies.
MaxDeps == 2

None == "<None>"

-----------------------------------------------------------------------------
(* Inputs of one invocation *)

\* values of --format on the command line (None: option absent)
FormatArgs == {None, "simple", "ansi", "json", "markdown", "csv", "xml"}

\* values of --file on the command line (None: option absent)
FileArgs == {None, "out.txt"}

\* exit codes of a child process: success, failure, command not found
ExitCodes == {0, 1, 127}

\* dependency names
Names == {"foo", "bar"}

\* a line of `poetry show`: name, version (a blank line has no words)
ShowLines == {<<>>} \cup {<<n, "1.0">> : n \in Names}

\* license strings, as sequences of words
LicenseTexts ==
    { <<>>, <<"MIT">>, <<"GPL-3.0">>, <<"GPL-3.0", "or", "MIT">>, <<"Custom">> }

SeqsUpTo(S, n) == UNION { [1..k -> S] : k \in 0..n }

-----------------------------------------------------------------------------
(* license_matrix: the classifier and the compatibility table *)

Categories ==
    {"public-domain", "permissive", "weak-copyleft", "strong-copyleft",
     "proprietary", "unknown"}

\* case folding of a word of a license string
Lower(w) ==
    CASE w = "MIT" -> "mit"
      [] w = "GPL-3.0" -> "gpl-3.0"
      [] w = "Custom" -> "custom"
      [] OTHER -> w

\* prioritized (keyword, category) rules; the first matching rule wins
Rules ==
    << [kw |-> "gpl-3.0", cat |-> "strong-copyleft"],
       [kw |-> "lgpl",    cat |-> "weak-copyleft"],
       [kw |-> "gpl",     cat |-> "strong-copyleft"],
       [kw |-> "mit",     cat |-> "permissive"],
       [kw |-> "unlicense", cat |-> "public-domain"],
       [kw |-> "proprietary", cat |-> "proprietary"] >>

\* how favourable a category is to the consumer (larger: more permissive)
Permissiveness ==
    [c \in Categories |->
        CASE c = "public-domain" -> 5
          [] c = "permissive" -> 4
          [] c = "weak-copyleft" -> 3
          [] c = "strong-copyleft" -> 2
          [] c = "proprietary" -> 1
          [] OTHER -> 0]

\* the alternatives of a license string: its words split at "or"
RECURSIVE SplitOr(_)
SplitOr(words) ==
    IF \A i \in DOMAIN words : Lower(words[i]) # "or"
    THEN <<words>>
    ELSE LET k == CHOOSE i \in DOMAIN words :
                     /\ Lower(words[i]) = "or"
                     /\ \A j \in 1..(i-1) : Lower(words[j]) # "or"
         IN <<SubSeq(words, 1, k-1)>> \o SplitOr(SubSeq(words, k+1, Len(words)))

\* category of one alternative: the first rule whose keyword is one of its words
ClassifyOne(words) ==
    LET hits == { r \in DOMAIN Rules :
                    \E i \in DOMAIN words : Lower(words[i]) = Rules[r].kw }
    IN IF hits = {} THEN "unknown"
       ELSE Rules[CHOOSE r \in hits : \A q \in hits : r <= q].cat

\* category of a license string: the most permissive of its alternatives
Classify(words) ==
    LET alts == SplitOr(words)
        cats == { ClassifyOne(alts[i]) : i \in DOMAIN alts }
    IN CHOOSE c \in cats : \A d \in cats : Permissiveness[d] <= Permissiveness[c]

PyList(items) == [tag |-> "list", items |-> items]

PyCategory(c) == [tag |-> "category", name |-> c]

\* license_matrix.licenseType(text): subscripted with [0] by its caller
licenseType(text) == PyList(<<Classify(text)>>)

\* value[0] of a Python list
Subscript0(value) == PyCategory(value.items[1])

\* the static table: CompatibilityMatrix[project][dependency]
CompatibilityMatrix ==
    [p \in Categories |-> [d \in Categories |->
        CASE p = "unknown" \/ d = "unknown" -> FALSE
          [] p = "proprietary" -> d \in {"public-domain", "permissive", "weak-copyleft"}
          [] d = "proprietary" -> FALSE
          [] OTHER -> Permissiveness[d] >= Permissiveness[p]]]

\* license_matrix.depCompatibleLice(myLice, depLice): myLice a category,
\* depLice the list licenseType returned
depCompatibleLice(myLice, depLice) ==
    \E i \in DOMAIN depLice.items :
        CompatibilityMatrix[myLice.name][depLice.items[i]]


-----------------------------------------------------------------------------
(* packageinfo and packagecompat *)

\* the record the metadata lookup delivers for one dependency
PackageInfo(name, license) ==
    [name |-> name, version |-> "1.0", license |-> license]

\* packageinfo.getPackages(reqs) when every lookup succeeds: one record per
\* requirement, in order; registry maps a name to its declared license
getPackages(requirements, registry) ==
    [i \in DOMAIN requirements |->
        PackageInfo(requirements[i], registry[requirements[i]])]

\* PackageCompat(**package, license_compat=compat)
PackageCompat(package, compat) ==
    [f \in DOMAIN package \cup {"license_compat"} |->
        IF f = "license_compat" THEN compat ELSE package[f]]

-----------------------------------------------------------------------------
(* cli *)

FORMAT_HELP ==
    "Output format. One of simple, ansi, json, markdown, csv. default=simple"

formatMap ==
    [k \in {"json", "markdown", "csv", "ansi", "simple"} |->
        CASE k = "json" -> "formatter.json"
          [] k = "markdown" -> "formatter.markdown"
          [] k = "csv" -> "formatter.csv"
          [] k = "ansi" -> "formatter.ansi"
          [] OTHER -> "formatter.simple"]

FileNames == FileArgs \ {None}

\* what print() writes: the help text, or a formatter applied to the records
HelpOutput == [text |-> FORMAT_HELP, formatter |-> None, records |-> <<>>]

ReportOutput(formatter, records) ==
    [text |-> "report", formatter |-> formatter, records |-> records]

OldContent == <<[text |-> "old", formatter |-> None, records |-> <<>>]>>

VARIABLES
    args,             \* parsed command line: [format, file]
    pc,               \* position in cli / getdepsLicenses
    target,           \* `filename` of cli: "stdout" or the opened file
    files,            \* file system: name -> [exists, content]
    stdout,           \* what was printed to standard output
    sysexit,          \* statuses passed to sys.exit (sysexit), in order
    raised,           \* exception that left cli, None while there is none
    warningsLog,      \* warnings emitted by warnings.warn
    poetryInstalled,
    reqs,
    myLiceTxt,
    myLice,
    packages,         \* what packageinfo.getPackages(reqs) delivered
    depsLicenses,
    returned,         \* lists returned by getdepsLicenses, in order
    formatterChosen,  \* formatter function selected by cli
    trace             \* calls made so far, in order

vars == <<args, pc, target, files, stdout, sysexit, raised, warningsLog,
          poetryInstalled, reqs, myLiceTxt, myLice, packages, depsLicenses,
          returned, formatterChosen, trace>>

cliVars == <<args, target, files, stdout, sysexit, formatterChosen>>

Init ==
    /\ args \in [format : FormatArgs, file : FileArgs]
    /\ pc = "open"
    /\ target = None
    /\ \E present \in BOOLEAN :
          files = [f \in FileNames |->
                      [exists |-> present,
                       content |-> IF present THEN OldContent ELSE <<>>]]
    /\ stdout = <<>>
    /\ sysexit = <<>>
    /\ raised = None
    /\ warningsLog = <<>>
    /\ poetryInstalled = TRUE
    /\ reqs = <<>>
    /\ myLiceTxt = <<>>
    /\ myLice = PyCategory("unknown")
    /\ packages = <<>>
    /\ depsLicenses = <<>>
    /\ returned = <<>>
    /\ formatterChosen = None
    /\ trace = <<>>

\* line 83, --file absent: filename = stdout
UseStdout ==
    /\ pc = "open"
    /\ args.file = None
    /\ target' = "stdout"
    /\ pc' = "format"
    /\ UNCHANGED <<args, files, stdout, sysexit, raised, warningsLog,
                   poetryInstalled, reqs, myLiceTxt, myLice, packages, depsLicenses,
                   returned, formatterChosen, trace>>

\* OpenFile with the file opened in append mode: the old content is kept
OpenFileAppend ==
    /\ pc = "open"
    /\ args.file # None
    /\ \E ok \in BOOLEAN :
          /\ trace' = Append(trace, [fn |-> "open", line |-> 83,
                                       path |-> args.file, ok |-> ok,
                                       existed |-> files[args.file].exists])
          /\ IF ok
             THEN /\ files' = [files EXCEPT ![args.file].exists = TRUE]
                  /\ target' = args.file
                  /\ pc' = "format"
                  /\ raised' = raised
             ELSE /\ raised' = "OSError(args.file)"
                  /\ pc' = "raised"
                  /\ UNCHANGED <<files, target>>
    /\ UNCHANGED <<args, stdout, sysexit, warningsLog, poetryInstalled,
                   reqs, myLiceTxt, myLice, packages, depsLicenses, returned,
                   formatterChosen>>

\* line 83, --file given: filename = open(args.file, "w"), which creates or
\* truncates the file, or raises OSError
OpenFile ==
    /\ pc = "open"
    /\ args.file # None
    /\ \E ok \in BOOLEAN :
          /\ trace' = Append(trace, [fn |-> "open", line |-> 83,
                                       path |-> args.file, ok |-> ok,
                                       existed |-> files[args.file].exists])
          /\ IF ok
             THEN /\ files' = [files EXCEPT ![args.file] =
                                   [exists |-> TRUE, content |-> <<>>]]
                  /\ target' = args.file
                  /\ pc' = "format"
                  /\ raised' = raised
             ELSE /\ raised' = "OSError(args.file)"
                  /\ pc' = "raised"
                  /\ UNCHANGED <<files, target>>
    /\ UNCHANGED <<args, stdout, sysexit, warningsLog, poetryInstalled,
                   reqs, myLiceTxt, myLice, packages, depsLicenses, returned,
                   formatterChosen>>

\* lines 88-89: --format absent, formatter.simple(getdepsLicenses())
FormatDefault ==
    /\ pc = "format"
    /\ args.format = None
    /\ formatterChosen' = "formatter.simple"
    /\ pc' = "probe"
    /\ UNCHANGED <<args, target, files, stdout, sysexit, raised,
                   warningsLog, poetryInstalled, reqs, myLiceTxt, myLice, packages,
                   depsLicenses, returned, trace>>

\* lines 90-91: formatMap[args.format](getdepsLicenses())
FormatNamed ==
    /\ pc = "format"
    /\ args.format # None
    /\ args.format \in DOMAIN formatMap
    /\ formatterChosen' = formatMap[args.format]
    /\ pc' = "probe"
    /\ UNCHANGED <<args, target, files, stdout, sysexit, raised,
                   warningsLog, poetryInstalled, reqs, myLiceTxt, myLice, packages,
                   depsLicenses, returned, trace>>

\* FormatUnknown falling back to the default formatter instead of exiting
FormatUnknownFallback ==
    /\ pc = "format"
    /\ args.format # None
    /\ args.format \notin DOMAIN formatMap
    /\ formatterChosen' = "formatter.simple"
    /\ pc' = "probe"
    /\ UNCHANGED <<args, target, files, stdout, sysexit, raised,
                   warningsLog, poetryInstalled, reqs, myLiceTxt, myLice,
                   packages, depsLicenses, returned, trace>>

\* lines 92-94: print(FORMAT_HELP); sysexit(1)
FormatUnknown ==
    /\ pc = "format"
    /\ args.format # None
    /\ args.format \notin DOMAIN formatMap
    /\ stdout' = Append(stdout, HelpOutput)
    /\ sysexit' = Append(sysexit, 1)
    /\ pc' = "exited"
    /\ UNCHANGED <<args, target, files, raised, warningsLog, poetryInstalled,
                   reqs, myLiceTxt, myLice, packages, depsLicenses, returned,
                   formatterChosen, trace>>

\* lines 89/91: print(<formatter>(<records>), file=filename)
PrintReport ==
    /\ pc = "print"
    /\ IF target = "stdout"
       THEN /\ stdout' = Append(stdout, ReportOutput(formatterChosen, returned[Len(returned)]))
            /\ files' = files
       ELSE /\ files' = [files EXCEPT ![target].content =
                            Append(@, ReportOutput(formatterChosen, returned[Len(returned)]))]
            /\ stdout' = stdout
    /\ pc' = "done"
    /\ UNCHANGED <<args, target, sysexit, raised, warningsLog,
                   poetryInstalled, reqs, myLiceTxt, myLice, packages, depsLicenses,
                   returned, formatterChosen, trace>>

-----------------------------------------------------------------------------
(* getdepsLicenses *)

\* the record of one _doSysExec(command) call: it returns (exitCode, out)
\* whatever the exit code is
DoSysExec(line, command, exitCode) ==
    [fn |-> "_doSysExec", line |-> line, command |-> command,
     exitCode |-> exitCode, outcome |-> "returned"]

\* ProbePoetry without line 48: the flag stays True after a failed probe
ProbePoetryNoFlag ==
    /\ pc = "probe"
    /\ \E code \in ExitCodes :
          /\ trace' = Append(trace, DoSysExec(47, "poetry -h", code))
          /\ poetryInstalled' = TRUE
          /\ warningsLog' =
                IF code # 0
                THEN Append(warningsLog,
                            "RuntimeWarning: poetry is not on the system path")
                ELSE warningsLog
    /\ pc' = "source"
    /\ UNCHANGED <<cliVars, raised, reqs, myLiceTxt, myLice, packages,
                   depsLicenses, returned>>

\* lines 46-49: probe `poetry -h`; warn when it exits non-zero
ProbePoetry ==
    /\ pc = "probe"
    /\ \E code \in ExitCodes :
          /\ trace' = Append(trace, DoSysExec(47, "poetry -h", code))
          /\ poetryInstalled' = (code = 0)
          /\ warningsLog' =
                IF code # 0
                THEN Append(warningsLog,
                            "RuntimeWarning: poetry is not on the system path")
                ELSE warningsLog
    /\ pc' = "source"
    /\ UNCHANGED <<cliVars, raised, reqs, myLiceTxt, myLice, packages, depsLicenses,
                   returned>>

\* lines 52-57: the first word of every line of `poetry show`; a line
\* without words makes parts[0] raise IndexError
PoetryShow ==
    /\ pc = "source"
    /\ poetryInstalled
    /\ \E code \in ExitCodes, lines \in SeqsUpTo(ShowLines, MaxDeps) :
          /\ trace' = Append(trace, DoSysExec(54, "poetry show", code))
          /\ IF \E i \in DOMAIN lines : lines[i] = <<>>
             THEN /\ raised' = "IndexError"
                  /\ pc' = "raised"
                  /\ reqs' = reqs
             ELSE /\ reqs' = [i \in DOMAIN lines |-> lines[i][1]]
                  /\ pc' = "mylicense"
                  /\ raised' = raised
    /\ UNCHANGED <<cliVars, warningsLog, poetryInstalled, myLiceTxt, myLice, packages,
                   depsLicenses, returned>>

\* ReadRequirements with the failure of open() swallowed: no requirements
ReadRequirementsSwallow ==
    /\ pc = "source"
    /\ ~poetryInstalled
    /\ \E readable \in BOOLEAN :
          /\ trace' = Append(trace, [fn |-> "open", line |-> 59,
                                       path |-> "requirements.txt",
                                       ok |-> readable])
          /\ IF readable
             THEN \E names \in SeqsUpTo(Names, MaxDeps) : reqs' = names
             ELSE reqs' = <<>>
    /\ pc' = "mylicense"
    /\ UNCHANGED <<cliVars, raised, warningsLog, poetryInstalled, myLiceTxt,
                   myLice, packages, depsLicenses, returned>>

\* lines 58-61: the names of the requirements of requirements.txt; open()
\* raises OSError (FileNotFoundError) when the file cannot be opened
ReadRequirements ==
    /\ pc = "source"
    /\ ~poetryInstalled
    /\ \E readable \in BOOLEAN :
          /\ trace' = Append(trace, [fn |-> "open", line |-> 59,
                                       path |-> "requirements.txt",
                                       ok |-> readable])
          /\ IF readable
             THEN /\ \E names \in SeqsUpTo(Names, MaxDeps) : reqs' = names
                  /\ pc' = "mylicense"
                  /\ raised' = raised
             ELSE /\ raised' = "OSError(requirements.txt)"
                  /\ pc' = "raised"
                  /\ reqs' = reqs
    /\ UNCHANGED <<cliVars, warningsLog, poetryInstalled, myLiceTxt, myLice, packages,
                   depsLicenses, returned>>

\* lines 63-64: read the project's license and keep element 0 of its
\* classification
GetMyLicense ==
    /\ pc = "mylicense"
    /\ \E text \in LicenseTexts :
          /\ myLiceTxt' = text
          /\ myLice' = Subscript0(licenseType(text))
          /\ trace' = trace \o
                << [fn |-> "getMyPackageLicense", line |-> 63, ret |-> text],
                   [fn |-> "licenseType", line |-> 64, text |-> text] >>
    /\ pc' = "packages"
    /\ UNCHANGED <<cliVars, raised, warningsLog, poetryInstalled, reqs,
                   packages, depsLicenses, returned>>

\* line 67: packageinfo.getPackages(reqs) delivers the records
LookupPackages ==
    /\ pc = "packages"
    /\ \E registry \in [Names -> LicenseTexts] :
          packages' = getPackages(reqs, registry)
    /\ trace' = Append(trace, [fn |-> "getPackages", line |-> 67, failed |-> None])
    /\ pc' = "loop"
    /\ UNCHANGED <<cliVars, raised, warningsLog, poetryInstalled, reqs,
                   myLiceTxt, myLice, depsLicenses, returned>>

\* line 67: the lookup of one dependency fails; nothing in getdepsLicenses
\* catches the exception
LookupFails ==
    /\ pc = "packages"
    /\ \E i \in DOMAIN reqs :
          trace' = Append(trace,
                          [fn |-> "getPackages", line |-> 67, failed |-> reqs[i]])
    /\ raised' = "MetadataUnavailable"
    /\ pc' = "raised"
    /\ UNCHANGED <<cliVars, warningsLog, poetryInstalled, reqs, myLiceTxt, myLice,
                   packages, depsLicenses, returned>>

\* CheckPackage inserting the record at the front of the list
CheckPackageReordered ==
    /\ pc = "loop"
    /\ Len(depsLicenses) < Len(packages)
    /\ LET package == packages[Len(depsLicenses) + 1]
           depLice == licenseType(package.license)
           compat  == depCompatibleLice(myLice, depLice)
       IN /\ depsLicenses' = <<PackageCompat(package, compat)>> \o depsLicenses
          /\ trace' = trace \o
                << [fn |-> "licenseType", line |-> 68, text |-> package.license],
                   [fn |-> "depCompatibleLice", line |-> 70,
                    myLice |-> myLice, depLice |-> depLice] >>
    /\ UNCHANGED <<cliVars, pc, raised, warningsLog, poetryInstalled, reqs,
                   myLiceTxt, myLice, packages, returned>>

\* CheckPackage with the two licenses passed in the wrong order
CheckPackageSwapped ==
    /\ pc = "loop"
    /\ Len(depsLicenses) < Len(packages)
    /\ LET package == packages[Len(depsLicenses) + 1]
           depLice == licenseType(package.license)
           first   == Subscript0(depLice)
           second  == licenseType(myLiceTxt)
           compat  == depCompatibleLice(first, second)
       IN /\ depsLicenses' = Append(depsLicenses, PackageCompat(package, compat))
          /\ trace' = trace \o
                << [fn |-> "licenseType", line |-> 68, text |-> package.license],
                   [fn |-> "depCompatibleLice", line |-> 70,
                    myLice |-> first, depLice |-> second] >>
    /\ UNCHANGED <<cliVars, pc, raised, warningsLog, poetryInstalled, reqs,
                   myLiceTxt, myLice, packages, returned>>

\* CheckPackage classifying the license of the first package every time
CheckPackageStale ==
    /\ pc = "loop"
    /\ Len(depsLicenses) < Len(packages)
    /\ LET package == packages[Len(depsLicenses) + 1]
           depLice == licenseType(packages[1].license)
           compat  == depCompatibleLice(myLice, depLice)
       IN /\ depsLicenses' = Append(depsLicenses, PackageCompat(package, compat))
          /\ trace' = trace \o
                << [fn |-> "licenseType", line |-> 68, text |-> packages[1].license],
                   [fn |-> "depCompatibleLice", line |-> 70,
                    myLice |-> myLice, depLice |-> depLice] >>
    /\ UNCHANGED <<cliVars, pc, raised, warningsLog, poetryInstalled, reqs,
                   myLiceTxt, myLice, packages, returned>>

\* CheckPackage reading and classifying the project's license in the loop
CheckPackageReclassify ==
    /\ pc = "loop"
    /\ Len(depsLicenses) < Len(packages)
    /\ \E text \in LicenseTexts :
          LET package == packages[Len(depsLicenses) + 1]
              mine    == Subscript0(licenseType(text))
              depLice == licenseType(package.license)
              compat  == depCompatibleLice(mine, depLice)
          IN /\ myLiceTxt' = text
             /\ myLice' = mine
             /\ depsLicenses' = Append(depsLicenses, PackageCompat(package, compat))
             /\ trace' = trace \o
                   << [fn |-> "getMyPackageLicense", line |-> 63, ret |-> text],
                      [fn |-> "licenseType", line |-> 64, text |-> text],
                      [fn |-> "licenseType", line |-> 68, text |-> package.license],
                      [fn |-> "depCompatibleLice", line |-> 70,
                       myLice |-> mine, depLice |-> depLice] >>
    /\ UNCHANGED <<cliVars, pc, raised, warningsLog, poetryInstalled, reqs,
                   packages, returned>>

\* lines 67-70, one iteration: classify the package's license, look the
\* pair up, append the record
CheckPackage ==
    /\ pc = "loop"
    /\ Len(depsLicenses) < Len(packages)
    /\ LET package == packages[Len(depsLicenses) + 1]
           depLice == licenseType(package.license)
           compat  == depCompatibleLice(myLice, depLice)
       IN /\ depsLicenses' = Append(depsLicenses, PackageCompat(package, compat))
          /\ trace' = trace \o
                << [fn |-> "licenseType", line |-> 68, text |-> package.license],
                   [fn |-> "depCompatibleLice", line |-> 70,
                    myLice |-> myLice, depLice |-> depLice] >>
    /\ UNCHANGED <<cliVars, pc, raised, warningsLog, poetryInstalled, reqs,
                   myLiceTxt, myLice, packages, returned>>

\* line 71: return depsLicenses
ReturnLicenses ==
    /\ pc = "loop"
    /\ Len(depsLicenses) = Len(packages)
    /\ returned' = Append(returned, depsLicenses)
    /\ pc' = "print"
    /\ UNCHANGED <<cliVars, raised, warningsLog, poetryInstalled, reqs,
                   myLiceTxt, myLice, packages, depsLicenses, trace>>

Next ==
    \/ UseStdout
    \/ OpenFile
    \/ FormatDefault
    \/ FormatNamed
    \/ FormatUnknown
    \/ ProbePoetry
    \/ PoetryShow
    \/ ReadRequirements
    \/ GetMyLicense
    \/ LookupPackages
    \/ LookupFails
    \/ CheckPackage
    \/ ReturnLicenses
    \/ PrintReport

Spec == Init /\ [][Next]_vars

-----------------------------------------------------------------------------
(* Properties *)

\* the calls made from one place of the source, in order
CallSeq(fn, line) == SelectSeq(trace, LAMBDA e : e.fn = fn /\ e.line = line)

\* the reports among the things printed to one sink
Reports(sink) == SelectSeq(sink, LAMBDA o : o.text = "report")

\* every list of records built so far: the one under construction and the
\* ones returned
RecordLists == {depsLicenses} \cup { returned[k] : k \in DOMAIN returned }

ValidFormats == {"simple", "ansi", "json", "markdown", "csv"}

\* the source step of getdepsLicenses (lines 52-61) is over
PastSource ==
    \/ pc \in {"mylicense", "packages", "loop", "print", "done"}
    \/ pc = "raised" /\ raised # "OSError(args.file)"

\* C1: the list getdepsLicenses builds and returns has exactly one record
\* per tuple delivered by packageinfo.getPackages, the i-th record carrying
\* the fields of the i-th tuple: nothing filtered, duplicated or reordered.
C1_OneRecordPerTuple ==
    /\ Len(depsLicenses) <= Len(packages)
    /\ \A i \in DOMAIN depsLicenses :
          \A f \in DOMAIN packages[i] : depsLicenses[i][f] = packages[i][f]
    /\ \A k \in DOMAIN returned :
          /\ Len(returned[k]) = Len(packages)
          /\ \A i \in DOMAIN packages :
                \A f \in DOMAIN packages[i] : returned[k][i][f] = packages[i][f]

C1_Witness ==
    /\ pc = "done"
    /\ Len(returned) = 1
    /\ Len(returned[1]) >= 2
    /\ returned[1][1].name # returned[1][2].name
    /\ returned[1][1].license # returned[1][2].license

C3_LookupFailureAbsorbed ==
    LET lookups == CallSeq("getPackages", 67)
    IN \A k \in DOMAIN lookups :
          lookups[k].failed # None =>
             /\ raised = None
             /\ \A r \in DOMAIN returned :
                   \E i \in DOMAIN returned[r] :
                      /\ returned[r][i].name = lookups[k].failed
                      /\ ~returned[r][i].license_compat

\* C4: when the poetry probe exits non-zero and requirements.txt cannot be
\* opened, getdepsLicenses ends with the exception of open() leaving it:
\* nothing is returned and nothing is printed.
C4_NoSourceIsFatal ==
    LET opens == CallSeq("open", 59)
    IN \A k \in DOMAIN opens :
          ~opens[k].ok =>
             /\ pc = "raised"
             /\ raised = "OSError(requirements.txt)"
             /\ returned = <<>>
             /\ depsLicenses = <<>>
             /\ stdout = <<>>
             /\ \A f \in FileNames : Reports(files[f].content) = <<>>
             /\ CallSeq("_doSysExec", 54) = <<>>

C4_Witness ==
    LET probes == CallSeq("_doSysExec", 47)
        opens  == CallSeq("open", 59)
    IN /\ Len(probes) = 1
       /\ probes[1].exitCode = 127
       /\ Len(opens) = 1
       /\ ~opens[1].ok
       /\ pc = "raised"

\* C5: a dependency whose license string classifies as unknown, the empty
\* string included, has license_compat false in its record, whatever the
\* project's license and whatever the other dependencies are.
C5_UnknownIsIncompatible ==
    \A l \in RecordLists : \A i \in DOMAIN l :
       (l[i].license = <<>> \/ Classify(l[i].license) = "unknown")
          => ~l[i].license_compat

C5_Witness ==
    /\ pc = "done"
    /\ myLice.name = "permissive"
    /\ Len(returned[1]) >= 2
    /\ returned[1][1].license_compat
    /\ returned[1][2].license = <<>>
    /\ ~returned[1][2].license_compat

\* C6: the project's license is read and classified exactly once, before
\* the first compatibility check, and every check gets that one category.
C6_ProjectClassifiedOnce ==
    LET reads  == CallSeq("getMyPackageLicense", 63)
        mine   == CallSeq("licenseType", 64)
        checks == CallSeq("depCompatibleLice", 70)
    IN /\ Len(reads) <= 1
       /\ Len(mine) <= 1
       /\ Len(reads) = Len(mine)
       /\ pc \in {"packages", "loop", "print", "done"} =>
             /\ Len(reads) = 1
             /\ mine[1].text = reads[1].ret
             /\ myLice = Subscript0(licenseType(reads[1].ret))
       /\ checks # <<>> => Len(mine) = 1
       /\ \A i, j \in DOMAIN trace :
             /\ trace[i].fn = "licenseType" /\ trace[i].line = 64
             /\ trace[j].line \in {68, 70}
             => i < j
       /\ \A k \in DOMAIN checks :
             checks[k].myLice = Subscript0(licenseType(reads[1].ret))

C6_Witness ==
    /\ pc = "done"
    /\ Len(CallSeq("depCompatibleLice", 70)) >= 2
    /\ Len(CallSeq("licenseType", 64)) = 1

\* C7: one probe, made first, selects the source of the names: `poetry
\* show` runs iff the probe exited with 0, requirements.txt is opened iff
\* it exited non-zero, the warning is emitted exactly in that case, and the
\* two sources are never both consulted.
C7_OneSourceByProbe ==
    LET probes == CallSeq("_doSysExec", 47)
        shows  == CallSeq("_doSysExec", 54)
        opens  == CallSeq("open", 59)
    IN /\ Len(probes) <= 1
       /\ Len(shows) + Len(opens) <= 1
       /\ (shows # <<>> \/ opens # <<>>) => probes # <<>>
       /\ \A i, j \in DOMAIN trace :
             /\ trace[i].fn = "_doSysExec" /\ trace[i].line = 47
             /\ trace[j].line \in {54, 59, 63, 64, 67, 68, 70}
             => i < j
       /\ shows # <<>> => probes[1].exitCode = 0
       /\ opens # <<>> => probes[1].exitCode # 0
       /\ PastSource =>
             /\ Len(probes) = 1
             /\ probes[1].exitCode = 0 => Len(shows) = 1
             /\ probes[1].exitCode # 0 => Len(opens) = 1
       /\ probes = <<>> => warningsLog = <<>>
       /\ probes # <<>> =>
             /\ probes[1].exitCode = 0 => warningsLog = <<>>
             /\ probes[1].exitCode # 0 =>
                   warningsLog =
                      <<"RuntimeWarning: poetry is not on the system path">>

C7_Witness ==
    /\ pc = "done"
    /\ CallSeq("_doSysExec", 47)[1].exitCode = 127
    /\ Len(CallSeq("open", 59)) = 1
    /\ Len(warningsLog) = 1
    /\ Len(returned[1]) >= 1

\* the formatter function that carries a --format name
FormatterNamed(name) ==
    CASE name = "json" -> "formatter.json"
      [] name = "markdown" -> "formatter.markdown"
      [] name = "csv" -> "formatter.csv"
      [] name = "ansi" -> "formatter.ansi"
      [] name = "simple" -> "formatter.simple"
      [] name = None -> "formatter.simple"

\* C8: without --format the simple formatter is used; with one of the five
\* names the formatter of that name is used; a run that completes generates
\* exactly one report and prints it to the chosen target; with any other
\* value cli prints the help, exits with status 1 and never calls
\* getdepsLicenses.
C8_FormatSelection ==
    LET known == args.format \in ValidFormats \cup {None}
        sink  == IF args.file = None THEN stdout ELSE files[args.file].content
        other == IF args.file = None THEN <<>> ELSE stdout
    IN /\ Len(returned) <= 1
       /\ known =>
             /\ sysexit = <<>>
             /\ pc # "exited"
             /\ \A i \in DOMAIN stdout : stdout[i] # HelpOutput
             /\ pc \notin {"open", "format"} /\ raised # "OSError(args.file)"
                   => formatterChosen = FormatterNamed(args.format)
             /\ pc # "done" =>
                   Reports(stdout) = <<>> /\ Reports(sink) = <<>>
             /\ pc = "done" =>
                   /\ Len(returned) = 1
                   /\ sink = <<ReportOutput(FormatterNamed(args.format),
                                            returned[1])>>
                   /\ other = <<>>
       /\ ~known =>
             /\ returned = <<>>
             /\ \A i \in DOMAIN trace : trace[i].line = 83
             /\ Reports(stdout) = <<>> /\ Reports(sink) = <<>>
             /\ pc \in {"open", "format", "exited", "raised"}
             /\ pc = "raised" => raised = "OSError(args.file)"
             /\ pc = "exited" =>
                   /\ sysexit = <<1>>
                   /\ stdout = <<HelpOutput>>

C8_Witness ==
    /\ pc = "done"
    /\ args.format = "csv"
    /\ args.file # None
    /\ Len(files[args.file].content) = 1
    /\ files[args.file].content[1].formatter = "formatter.csv"
    /\ Len(files[args.file].content[1].records) >= 1

\* C9 as stated: a _doSysExec call whose command exits non-zero raises a
\* RuntimeWarning instead of returning.
C9_NonZeroExitRaises ==
    \A i \in DOMAIN trace :
       (trace[i].fn = "_doSysExec" /\ trace[i].exitCode # 0)
          => trace[i].outcome = "raised RuntimeWarning"

\* C10: with --file given the file is opened for writing (created or
\* truncated) by the first call cli makes, before --format is looked at;
\* on the unrecognized-format path the help goes to standard output and
\* the file stays empty.
C10_FileOpenedBeforeValidation ==
    LET opens == CallSeq("open", 83)
    IN args.file # None =>
          /\ pc # "open" =>
                /\ Len(opens) = 1
                /\ trace[1] = opens[1]
          /\ (pc # "open" /\ raised # "OSError(args.file)") =>
                /\ opens[1].ok
                /\ target = args.file
                /\ files[args.file].exists
                /\ \A i \in DOMAIN files[args.file].content :
                      files[args.file].content[i].text = "report"
          /\ pc = "format" => files[args.file].content = <<>>
          /\ pc = "exited" =>
                /\ files[args.file] = [exists |-> TRUE, content |-> <<>>]
                /\ stdout = <<HelpOutput>>
                /\ sysexit = <<1>>

C10_Witness ==
    LET opens == CallSeq("open", 83)
    IN /\ pc = "exited"
       /\ args.file # None
       /\ args.format = "xml"
       /\ opens[1].existed
       /\ files[args.file].content = <<>>
       /\ stdout = <<HelpOutput>>

====
